---- MODULE Spec2Model ----
(***************************************************************************)
(* A model of the bignum engine of src/bignum.c (static-allocation build,  *)
(* BM_STATIC_ALLOC defined in src/bignum.h).                               *)
(*                                                                         *)
(* Every bignum lives in a heap h: a record with one field per bm_t object *)
(* (the caller's bignums and the scratch bignums that bm_mul and bm_powm   *)
(* keep on their stack).  A function of the source that takes bm_t         *)
(* pointers takes the NAMES of heap fields here, so that two parameters    *)
(* naming the same object alias exactly as two equal pointers do.  Every   *)
(* function returns [h |-> the heap after the call, ret |-> its result].   *)
(*                                                                         *)
(* Words are uint32_t in the source and the accumulators uint64_t.  TLC's  *)
(* integers are 32 bits wide, so the model keeps the structure (a word of  *)
(* BytesPerWord bytes, an accumulator twice as wide as a word, wrap-around *)
(* at both widths) with a narrower byte: ByteBits bits instead of 8.       *)
(***************************************************************************)
EXTENDS Integers, Sequences, FiniteSets, TLC

(* ------------------------------ bounds -------------------------------- *)

\* bits in a byte of the model (8 in the source)
ByteBits == 1
\* words in b[] (BM_MAX_SIZE is 32 in src/bignum.h)
BM_MAX_SIZE == 4
\* the longest operand, in words, that Init draws
MaxLen == 2
\* the largest exponent bm_powm is applied to
MaxExp == 3
\* the longest byte string bm_set_b is applied to
MaxBytes == 5

(* ------------------------- program constants -------------------------- *)

BytesPerWord == 4

BM_SUCCESS == 0
BM_ERROR_NOT_A_NUMBER == 1
BM_ERROR_NUMBER_TOO_BIG == 2
BM_ERROR_DIV_BY_ZERO == 5
BM_ERROR_INTERNAL_ERROR == 666

BM_POS == 1
BM_NEG == -1
BM_NAN == 0

\* one more than the largest byte, word and accumulator value
ByteBase == 2 ^ ByteBits
Base == ByteBase ^ BytesPerWord
Acc == Base * Base

Idx == 0 .. (BM_MAX_SIZE - 1)

BM_MAX(x, y) == IF x < y THEN y ELSE x

(* ------------------------------ storage ------------------------------- *)

\* a->b[i].  Below b[0] the struct's own fields are read (bm_s lays out
\* sign, size, maxs, b[] in this order, all 32 bits wide); outside the struct
\* the read returns whatever the memory holds, h.junk.
Load(h, a, i) ==
    IF i \in Idx THEN h[a].b[i]
    ELSE IF i = -1 THEN h[a].maxs
    ELSE IF i = -2 THEN h[a].size
    ELSE IF i = -3 THEN h[a].sign
    ELSE h.junk

\* r->b[i] = v.  A store outside b[] is recorded in h.oob.
Store(h, r, i, v) ==
    IF i \in Idx THEN [h EXCEPT ![r].b[i] = v]
    ELSE [h EXCEPT !.oob = TRUE]

\* F applied to the value of e: e is evaluated once, as a statement that
\* assigns its result to a local is
Bind(e, F(_)) == CHOOSE y \in {F(x) : x \in {e}} : TRUE

Ok(h) == [h |-> h, ret |-> BM_SUCCESS]
Err(h, e) == [h |-> h, ret |-> e]

(* ------------------------- magnitude arithmetic ----------------------- *)

bm_is_zero(h, a) ==
    \A n \in 0 .. (h[a].size - 1) : Load(h, a, n) = 0

\* the n that the loop of bm_trim ends with
RECURSIVE trim_loop(_, _, _)
trim_loop(h, r, n) ==
    IF n >= -3 /\ Load(h, r, n - 1) = 0 THEN trim_loop(h, r, n - 1) ELSE n

bm_trim(h, r, n) ==
    LET k == trim_loop(h, r, n)
        h1 == IF k < 1 THEN [h EXCEPT !.oob = TRUE] ELSE h
    IN  [h1 EXCEPT ![r].size = k]

bm_set_size(h, a, s) ==
    IF h[a].maxs > 0 /\ s > h[a].maxs
    THEN Err(h, -BM_ERROR_NUMBER_TOO_BIG)
    ELSE Ok([h EXCEPT ![a].maxs = BM_MAX_SIZE, ![a].size = s])

bm_resize(h, r) ==
    IF h[r].maxs = 0
    THEN Ok([h EXCEPT ![r].maxs = BM_MAX_SIZE])
    ELSE Err(h, -BM_ERROR_NUMBER_TOO_BIG)

bm_init(h, m) ==
    [h EXCEPT ![m].size = 0, ![m].sign = BM_NAN, ![m].maxs = 0]

bm_done(h, m) ==
    [h EXCEPT ![m].size = 0, ![m].maxs = 0]

\* the for loop of bm_sub_nosign: [h, c] after words n .. m-1
RECURSIVE sub_loop(_, _, _, _, _, _, _)
sub_loop(h, r, a, b, n, m, c) ==
    IF n >= m THEN [h |-> h, c |-> c]
    ELSE LET A == IF n < h[a].maxs THEN Load(h, a, n) ELSE 0
             B == IF n < h[b].maxs THEN Load(h, b, n) ELSE 0
             s == (A - B + c) % Acc
         IN  sub_loop(Store(h, r, n, s % Base), r, a, b, n + 1, m, s \div Base)

\* the while loop of bm_sub_nosign that drops leading zero words
RECURSIVE sub_trim(_, _, _)
sub_trim(h, r, n) ==
    IF n > 1 /\ Load(h, r, n - 1) = 0 THEN sub_trim(h, r, n - 1) ELSE n

bm_sub_nosign(h, r, a, b) ==
    LET m == BM_MAX(h[a].size, h[b].size)
        g == IF m >= h[r].maxs THEN bm_resize(h, r) ELSE Ok(h)
    IN  IF g.ret # BM_SUCCESS THEN g
        ELSE LET l == sub_loop(g.h, r, a, b, 0, m, 0)
             IN  Ok([l.h EXCEPT ![r].size = sub_trim(l.h, r, m)])

\* the for loop of bm_add_nosign: [h, c] after words n .. m-1
RECURSIVE add_loop(_, _, _, _, _, _, _)
add_loop(h, r, a, b, n, m, c) ==
    IF n >= m THEN [h |-> h, c |-> c]
    ELSE LET A == IF n < h[a].maxs THEN Load(h, a, n) ELSE 0
             B == IF n < h[b].maxs THEN Load(h, b, n) ELSE 0
             s == (A + B + c) % Acc
         IN  add_loop(Store(h, r, n, s % Base), r, a, b, n + 1, m, s \div Base)

bm_add_nosign(h, r, a, b) ==
    LET m == BM_MAX(h[a].size, h[b].size)
        g == IF m >= h[r].maxs THEN bm_resize(h, r) ELSE Ok(h)
    IN  IF g.ret # BM_SUCCESS THEN g
        ELSE LET l == add_loop(g.h, r, a, b, 0, m, 0)
                 h1 == IF l.c # 0 THEN Store(l.h, r, m, l.c % Base) ELSE l.h
                 n == IF l.c # 0 THEN m + 1 ELSE m
             IN  Ok([h1 EXCEPT ![r].size = n])

\* the for loop of bm_cmp_nosign, from word n down to word 0
RECURSIVE cmp_loop(_, _, _, _)
cmp_loop(h, a, b, n) ==
    IF n < 0 THEN 0
    ELSE IF Load(h, a, n) > Load(h, b, n) THEN 1
    ELSE IF Load(h, a, n) < Load(h, b, n) THEN -1
    ELSE cmp_loop(h, a, b, n - 1)

bm_cmp_nosign(h, a, b) ==
    IF h[a].size < h[b].size THEN -1
    ELSE IF h[a].size > h[b].size THEN 1
    ELSE cmp_loop(h, a, b, h[a].size - 1)

(* --------------------------- signed arithmetic ------------------------ *)

\* bm_cmp without the multiplication by the sign
bm_cmp_magnitude(h, a, b) ==
    IF h[a].sign # h[b].sign
    THEN (IF h[a].sign = BM_NEG THEN -1 ELSE 1)
    ELSE IF h[a].size < h[b].size THEN -1
    ELSE IF h[a].size > h[b].size THEN 1
    ELSE bm_cmp_nosign(h, a, b)

bm_cmp(h, a, b) ==
    IF h[a].sign # h[b].sign
    THEN (IF h[a].sign = BM_NEG THEN -1 ELSE 1)
    ELSE IF h[a].size < h[b].size THEN -1 * h[a].sign
    ELSE IF h[a].size > h[b].size THEN 1 * h[a].sign
    ELSE h[a].sign * bm_cmp_nosign(h, a, b)

bm_add(h, r, a, b) ==
    IF h[a].sign # h[b].sign
    THEN LET m == bm_cmp_nosign(h, a, b)
         IN  IF h[a].sign = BM_POS
             THEN bm_sub_nosign(
                      [h EXCEPT ![r].sign = IF m >= 0 THEN BM_POS ELSE BM_NEG],
                      r, a, b)
             ELSE bm_sub_nosign(
                      [h EXCEPT ![r].sign = IF m > 0 THEN BM_NEG ELSE BM_POS],
                      r, b, a)
    ELSE bm_add_nosign([h EXCEPT ![r].sign = h[a].sign], r, a, b)

bm_sub(h, r, a, b) ==
    IF h[a].sign # h[b].sign
    THEN bm_add_nosign([h EXCEPT ![r].sign = h[a].sign], r, a, b)
    ELSE IF bm_cmp_nosign(h, a, b) < 0
    THEN \* a and b are swapped: the sign written is decided by b's sign
         bm_sub_nosign(
             [h EXCEPT ![r].sign = IF h[b].sign = BM_POS THEN BM_NEG ELSE BM_POS],
             r, b, a)
    ELSE bm_sub_nosign(
             [h EXCEPT ![r].sign = IF h[a].sign = BM_POS THEN BM_POS ELSE BM_NEG],
             r, a, b)

(* ------------------------------- setters ------------------------------ *)

\* l is the int32_t argument; (uint32_t)l and (uint32_t)(-l) are its magnitude
bm_set_si(h, r, l) ==
    LET g == bm_set_size(h, r, 1)
    IN  IF g.ret # BM_SUCCESS THEN g
        ELSE IF l >= 0
        THEN Ok([Store(g.h, r, 0, l % Base) EXCEPT ![r].sign = BM_POS])
        ELSE Ok([Store(g.h, r, 0, (-l) % Base) EXCEPT ![r].sign = BM_NEG])

bm_set_ui(h, r, l) ==
    LET g == bm_set_size(h, r, 1)
    IN  IF g.ret # BM_SUCCESS THEN g
        ELSE Ok(Store([g.h EXCEPT ![r].sign = BM_POS], r, 0, l % Base))

\* the for loop of bm_set: d->b[n] = a->b[n] for words n .. a->size-1
RECURSIVE set_loop(_, _, _, _)
set_loop(h, d, a, n) ==
    IF n >= h[a].size THEN h
    ELSE set_loop(Store(h, d, n, Load(h, a, n)), d, a, n + 1)

bm_set(h, d, a) ==
    LET g == IF h[a].maxs > h[d].maxs THEN bm_set_size(h, d, h[a].maxs) ELSE Ok(h)
    IN  IF g.ret # BM_SUCCESS THEN g
        ELSE Ok(set_loop([g.h EXCEPT ![d].size = g.h[a].size,
                                     ![d].sign = g.h[a].sign], d, a, 0))

\* assert(a->sign) guards the body: the call is made on a set bignum only
bm_neg(h, a) == Ok([h EXCEPT ![a].sign = h[a].sign * BM_NEG])

(* ------------------------------ bm_add_ui ----------------------------- *)

\* the for loop of bm_add_ui: [h, c] after words n .. a->size-1
RECURSIVE add_ui_loop(_, _, _, _, _)
add_ui_loop(h, a, d, n, c) ==
    IF n >= h[a].size THEN [h |-> h, c |-> c]
    ELSE LET s == (Load(h, a, n) + d + c) % Acc
         IN  add_ui_loop(Store(h, a, n, s % Base), a, d, n + 1, s \div Base)

bm_add_ui(h, a, v) ==
    LET l == add_ui_loop(h, a, v, 0, 0)
    IN  IF l.c > 0
        THEN LET g == IF l.h[a].size = l.h[a].maxs THEN bm_resize(l.h, a) ELSE Ok(l.h)
             IN  IF g.ret # BM_SUCCESS THEN g
                 ELSE Ok([Store(g.h, a, g.h[a].size, l.c % Base)
                             EXCEPT ![a].size = g.h[a].size + 1])
        ELSE Ok(l.h)

(* ------------------------------- bm_mul ------------------------------- *)

\* bm_mul without the clearing of rr
mul_clear_none(h, m) == h

\* while (--m >= 0) rr.b[m] = 0
RECURSIVE mul_clear(_, _)
mul_clear(h, m) ==
    IF m - 1 < 0 THEN h ELSE mul_clear(Store(h, "rr", m - 1, 0), m - 1)

\* the inner for loop of bm_mul: [h, c] after words i .. a1->size-1
RECURSIVE mul_inner(_, _, _, _, _, _)
mul_inner(h, a1, o, i, B, c) ==
    IF i >= h[a1].size THEN [h |-> h, c |-> c]
    ELSE LET A == Load(h, a1, i)
             R == Load(h, "rr", o + i)
             s == (A * B + R + c) % Acc
         IN  mul_inner(Store(h, "rr", o + i, s % Base), a1, o, i + 1, B, s \div Base)

\* the outer for loop of bm_mul, words o .. b1->size-1
RECURSIVE mul_outer(_, _, _, _)
mul_outer(h, a1, b1, o) ==
    IF o >= h[b1].size THEN h
    ELSE LET B == Load(h, b1, o)
         IN  IF B = 0 THEN mul_outer(h, a1, b1, o + 1)
             ELSE LET l == mul_inner(h, a1, o, 0, B, 0)
                      h1 == IF l.c # 0
                            THEN Store(l.h, "rr", o + h[a1].size, l.c % Base)
                            ELSE l.h
                  IN  mul_outer(h1, a1, b1, o + 1)

\* rr is the scratch bignum on bm_mul's stack.  n, the value returned, is
\* assigned by the resize loop only, which runs at least once (rr.maxs is 0).
bm_mul(h, r, a, b) ==
    LET m == h[a].size + h[b].size
    IN  IF bm_is_zero(h, a) \/ bm_is_zero(h, b) THEN bm_set_si(h, r, 0)
        ELSE LET h0 == [bm_init(h, "rr") EXCEPT !["rr"].sign = h[a].sign * h[b].sign]
                 g1 == bm_resize(h0, "rr")
             IN  IF m > g1.h["rr"].maxs
                 THEN \* the second pass of the resize loop fails
                      Err(g1.h, -BM_ERROR_NUMBER_TOO_BIG)
                 ELSE LET h1 == mul_clear(g1.h, m)
                          a1 == IF h[a].size >= h[b].size THEN a ELSE b
                          b1 == IF h[a].size >= h[b].size THEN b ELSE a
                          h2 == mul_outer(h1, a1, b1, 0)
                          h3 == bm_trim(h2, "rr", h[b1].size + h[a1].size)
                          s == bm_set(h3, r, "rr")
                      IN  [h |-> bm_done(s.h, "rr"), ret |-> g1.ret]

(* ------------------------------- bm_div ------------------------------- *)

\* c is a uint32_t: after Base subtractions in one step it has wrapped.  The
\* model follows the subtraction loop of one step that far and no further.
DivFuel == Base

\* for (m = r->size; m > 0; m--) r->b[m] = r->b[m-1]
RECURSIVE div_shift(_, _, _)
div_shift(h, r, m) ==
    IF m <= 0 THEN h
    ELSE div_shift(Store(h, r, m, Load(h, r, m - 1)), r, m - 1)

\* while (bm_cmp_nosign(r,d) >= 0) { c++; bm_sub_nosign(r,r,d); }: the heap
\* and c, [h, c], after at most n more rounds of the loop from st.  The rounds
\* are split in two halves to keep the nesting of the evaluation shallow.
RECURSIVE div_sub(_, _, _, _)
div_sub(st, r, d, n) ==
    IF n = 0 \/ bm_cmp_nosign(st.h, r, d) < 0 THEN st
    ELSE IF n = 1
    THEN [h |-> bm_sub_nosign(st.h, r, r, d).h, c |-> (st.c + 1) % Base]
    ELSE Bind(div_sub(st, r, d, n \div 2), LAMBDA x :
              div_sub(x, r, d, n - (n \div 2)))

\* while (i > 0) { ... } and the two sign assignments that follow it
RECURSIVE div_outer(_, _, _, _, _, _)
div_outer(h, q, r, n, d, i) ==
    IF i <= 0
    THEN LET h1 == [h EXCEPT ![r].sign = h[n].sign * h[d].sign]
         IN  [h |-> [h1 EXCEPT ![q].sign = h1[r].sign], ret |-> BM_SUCCESS,
              run |-> FALSE]
    ELSE LET h1 == div_shift(h, r, h[r].size)
             h2 == Store(h1, r, 0, Load(h1, n, i - 1))
             h3 == [h2 EXCEPT ![r].size = h2[r].size + 1]
         IN  Bind(div_sub([h |-> h3, c |-> 0], r, d, DivFuel), LAMBDA l :
             IF bm_cmp_nosign(l.h, r, d) >= 0
             THEN \* still looping after DivFuel rounds
                  [h |-> l.h, ret |-> BM_SUCCESS, run |-> TRUE]
             ELSE IF l.c > 0
             THEN Bind(bm_add_ui(l.h, q, l.c), LAMBDA g :
                  IF g.ret # BM_SUCCESS
                  THEN [h |-> g.h, ret |-> g.ret, run |-> FALSE]
                  ELSE div_outer(g.h, q, r, n, d, i - 1))
             ELSE div_outer(l.h, q, r, n, d, i - 1))

Ret(g) == [h |-> g.h, ret |-> g.ret, run |-> FALSE]

\* the two while loops that grow r and q to n->size - d->size + 1 words
div_grow(h, q, r, n, d) ==
    LET k == h[n].size - h[d].size + 1
        g1 == IF k > h[r].maxs THEN bm_resize(h, r) ELSE Ok(h)
    IN  IF g1.ret # BM_SUCCESS \/ k > g1.h[r].maxs
        THEN Err(g1.h, -BM_ERROR_NUMBER_TOO_BIG)
        ELSE LET g2 == IF k > g1.h[q].maxs THEN bm_resize(g1.h, q) ELSE Ok(g1.h)
             IN  IF g2.ret # BM_SUCCESS \/ k > g2.h[q].maxs
                 THEN Err(g2.h, -BM_ERROR_NUMBER_TOO_BIG)
                 ELSE g2

\* bm_set_si(q,0); r->size = 0;
div_start(h, q, r) == [bm_set_si(h, q, 0).h EXCEPT ![r].size = 0]

\* bm_div from the comparison of the magnitudes on, d not being zero.
\* [h, ret, run]: run is TRUE when the call is still in a subtraction loop
\* after DivFuel rounds (ret is then meaningless)
div_nonzero(h, q, r, n, d) ==
    LET m == bm_cmp_nosign(h, n, d)
    IN  IF m = 0
        THEN LET g == bm_set_si(h, r, 0)
             IN  IF g.ret # BM_SUCCESS THEN Ret(g)
                 ELSE Ret(bm_set_si(g.h, q, g.h[n].sign * g.h[d].sign))
        ELSE IF m < 0
        THEN LET g == bm_set_si(h, q, 0)
             IN  IF g.ret # BM_SUCCESS THEN Ret(g)
                 ELSE Ret(bm_set(g.h, r, n))
        ELSE LET g == div_grow(h, q, r, n, d)
             IN  IF g.ret # BM_SUCCESS THEN Ret(g)
                 ELSE LET h4 == div_start(g.h, q, r)
                      IN  div_outer(h4, q, r, n, d, h4[n].size)

\* bm_div with the quotient cleared before the denominator is tested
bm_div_clears(h, q, r, n, d) ==
    LET g == bm_set_si(h, q, 0)
    IN  IF bm_is_zero(g.h, d) THEN Ret(Err(g.h, BM_ERROR_DIV_BY_ZERO))
        ELSE div_nonzero(h, q, r, n, d)

bm_div(h, q, r, n, d) ==
    IF bm_is_zero(h, d) THEN Ret(Err(h, BM_ERROR_DIV_BY_ZERO))
    ELSE div_nonzero(h, q, r, n, d)

(* ------------------------------- bm_asr ------------------------------- *)

WordBits == ByteBits * BytesPerWord

\* x | y on words
RECURSIVE BitOr(_, _)
BitOr(x, y) ==
    IF x = 0 THEN y
    ELSE IF y = 0 THEN x
    ELSE (IF x % 2 = 1 \/ y % 2 = 1 THEN 1 ELSE 0) + 2 * BitOr(x \div 2, y \div 2)

\* x << k and x >> k on words.  A shift by the whole width of the word is
\* undefined: a build that masks the count leaves x as it is (u), one that
\* does not gives 0
Shl(x, k, u) == IF k < WordBits THEN (x * 2 ^ k) % Base ELSE IF u THEN x ELSE 0
Shr(x, k, u) == IF k < WordBits THEN x \div (2 ^ k) ELSE IF u THEN x ELSE 0

\* the for loop of bm_asr, from word i down to word 0
RECURSIVE asr_loop(_, _, _, _, _, _, _)
asr_loop(h, r, a, n, i, c, u) ==
    IF i < 0 THEN h
    ELSE LET A == Load(h, a, i)
         IN  asr_loop(Store(h, r, i, BitOr(Shr(A, n, u), c)), r, a, n, i - 1,
                      Shl(A, WordBits - n, u), u)

\* u is the outcome of the shift by the whole width that n = 0 makes
bm_asr(h, r, a, n, u) ==
    LET k == n % WordBits
        sz == h[a].size
        h1 == asr_loop(h, r, a, k, sz - 1, 0, u)
        h2 == bm_trim(h1, r, sz)
    IN  Ok([h2 EXCEPT ![r].sign = h2[a].sign])

(* ------------------------------- bm_asl ------------------------------- *)

\* the for loop of bm_asl: the word shifted is a->b[n] in every pass
RECURSIVE asl_loop(_, _, _, _, _, _, _)
asl_loop(h, r, a, n, i, c, u) ==
    IF i >= h[a].size THEN [h |-> h, c |-> c, i |-> i]
    ELSE LET A == Load(h, a, n)
         IN  asl_loop(Store(h, r, i, BitOr(Shl(A, n, u), c)), r, a, n, i + 1,
                      Shr(A, WordBits - n, u), u)

bm_asl(h, r, a, n, u) ==
    LET k == n % WordBits
        g == IF h[a].size >= h[r].maxs THEN bm_resize(h, r) ELSE Ok(h)
    IN  IF g.ret # BM_SUCCESS THEN g
        ELSE LET l == asl_loop(g.h, r, a, k, 0, 0, u)
                 h1 == IF l.c # 0 THEN Store(l.h, r, l.i, l.c) ELSE l.h
                 i1 == IF l.c # 0 THEN l.i + 1 ELSE l.i
             IN  Ok([h1 EXCEPT ![r].size = i1, ![r].sign = h1[a].sign])

(* ------------------------------- bm_powm ------------------------------ *)

\* if (exp.b[0] & 1) { bm_mul(r,r,&bas); bm_set(&tmp,r); bm_div(&nil,r,&tmp,m); }
powm_odd(h, r, m) ==
    IF Load(h, "exp", 0) % 2 = 1
    THEN Bind(bm_mul(h, r, r, "bas").h, LAMBDA x :
         Bind(bm_set(x, "tmp", r).h, LAMBDA y :
         bm_div(y, "nil", r, "tmp", m)))
    ELSE Ret(Ok(h))

\* bm_asr(&exp,&exp,1); bm_mul(&bas,&bas,&bas); bm_set(&tmp,&bas);
\* bm_div(&nil,&bas,&tmp,m);  The shift by 1 makes no shift by the whole width
powm_square(h, m) ==
    Bind(bm_asr(h, "exp", "exp", 1, FALSE).h, LAMBDA x :
    Bind(bm_mul(x, "bas", "bas", "bas").h, LAMBDA y :
    Bind(bm_set(y, "tmp", "bas").h, LAMBDA z :
    bm_div(z, "nil", "bas", "tmp", m))))

\* the while loop of bm_powm; the results of the calls in it are dropped
RECURSIVE powm_loop(_, _, _)
powm_loop(h, r, m) ==
    IF bm_is_zero(h, "exp") THEN [h |-> h, run |-> FALSE]
    ELSE Bind(powm_odd(h, r, m), LAMBDA s1 :
         IF s1.run THEN [h |-> s1.h, run |-> TRUE]
         ELSE Bind(powm_square(s1.h, m), LAMBDA s2 :
              IF s2.run THEN [h |-> s2.h, run |-> TRUE]
              ELSE powm_loop(s2.h, r, m)))

\* powm_err: bm_done on the four scratch bignums
powm_done(h) == bm_done(bm_done(bm_done(bm_done(h, "nil"), "exp"), "bas"), "tmp")

\* the set-up with the arguments of the last bm_set exchanged: the scratch
\* exponent is copied over the caller's
powm_setup_swapped(h, r, b, e) ==
    Bind(bm_set_ui(h, r, 1), LAMBDA g1 :
    IF g1.ret # BM_SUCCESS THEN g1
    ELSE Bind(bm_set(g1.h, "bas", b), LAMBDA g2 :
         IF g2.ret # BM_SUCCESS THEN g2
         ELSE bm_set(g2.h, e, "exp")))

\* the three calls before the loop; a failing one jumps to powm_err
powm_setup(h, r, b, e) ==
    Bind(bm_set_ui(h, r, 1), LAMBDA g1 :
    IF g1.ret # BM_SUCCESS THEN g1
    ELSE Bind(bm_set(g1.h, "bas", b), LAMBDA g2 :
         IF g2.ret # BM_SUCCESS THEN g2
         ELSE bm_set(g2.h, "exp", e)))

\* nil, exp, bas and tmp are the scratch bignums on bm_powm's stack
bm_powm(h, r, b, e, m) ==
    Bind(powm_setup(bm_init(bm_init(bm_init(bm_init(h, "nil"), "exp"), "bas"),
                            "tmp"), r, b, e), LAMBDA g :
    IF g.ret # BM_SUCCESS THEN Ret(Err(powm_done(g.h), g.ret))
    ELSE Bind(powm_loop(g.h, r, m), LAMBDA l :
         [h |-> IF l.run THEN l.h ELSE powm_done(l.h),
          ret |-> BM_SUCCESS, run |-> l.run]))

(* ------------------------- byte import / export ----------------------- *)

get_size_in_longs(n) == (n + BytesPerWord - 1) \div BytesPerWord

\* the while loop of bm_set_b over the octets s[1..i] (b[0..i-1] in the
\* source): [h, l, m, n] at its end
RECURSIVE set_b_loop(_, _, _, _, _, _, _)
set_b_loop(h, r, s, i, l, m, n) ==
    IF i <= 0 THEN [h |-> h, l |-> l, m |-> m, n |-> n]
    ELSE LET l1 == BitOr(l \div ByteBase,
                         (s[i] * ByteBase ^ (BytesPerWord - 1)) % Base)
         IN  IF (n + 1) % BytesPerWord = 0
             THEN set_b_loop(Store(h, r, m, l1), r, s, i - 1, 0, m + 1, n + 1)
             ELSE set_b_loop(h, r, s, i - 1, l1, m, n + 1)

bm_set_b(h, r, s, i) ==
    IF i < 1 THEN Err(h, -BM_ERROR_NOT_A_NUMBER)
    ELSE LET g == IF get_size_in_longs(i) > h[r].maxs THEN bm_resize(h, r) ELSE Ok(h)
         IN  IF g.ret # BM_SUCCESS THEN g
             ELSE LET w == set_b_loop(g.h, r, s, i, 0, 0, 0)
                      k == w.n % BytesPerWord
                      h1 == IF k # 0
                            THEN Store(w.h, r, w.m,
                                       w.l \div (ByteBase ^ (BytesPerWord - k)))
                            ELSE w.h
                      m1 == IF k # 0 THEN w.m + 1 ELSE w.m
                  IN  Ok([h1 EXCEPT ![r].size = m1, ![r].sign = BM_POS])

\* (uint8_t)l, the shift left out
ByteOf_noshift(l, k) == l % ByteBase

\* (uint8_t)(l >> 8*k)
ByteOf(l, k) == (l \div (ByteBase ^ k)) % ByteBase

\* the octets the switch of bm_get_b stores for the top word l
TopBytes(l, n) == [j \in 1 .. n |-> ByteOf(l, n - j)]

\* the octets the while loop of bm_get_b stores for words m-1 .. 0
RECURSIVE get_b_loop(_, _, _, _)
get_b_loop(h, a, m, out) ==
    IF m - 1 < 0 THEN out
    ELSE LET l == Load(h, a, m - 1)
         IN  get_b_loop(h, a, m - 1,
                 out \o [j \in 1 .. BytesPerWord |-> ByteOf(l, BytesPerWord - j)])

\* bm_neg_b without the carry: every octet is negated on its own
RECURSIVE bm_neg_b_nocarry(_, _, _)
bm_neg_b_nocarry(out, n, c) ==
    IF n < 1 THEN out
    ELSE bm_neg_b_nocarry([out EXCEPT ![n] = (ByteBase - out[n]) % ByteBase],
                          n - 1, 0)

\* the for loop of bm_neg_b over octets n .. 1 of out (b[n-1] .. b[0])
RECURSIVE bm_neg_b(_, _, _)
bm_neg_b(out, n, c) ==
    IF n < 1 THEN out
    ELSE LET x == out[n] + c + (ByteBase - 1)
             \* x ^ 0xff flips the low octet of x
             y == (x \div ByteBase) * ByteBase + ((ByteBase - 1) - (x % ByteBase))
         IN  bm_neg_b([out EXCEPT ![n] = y % ByteBase], n - 1, y \div ByteBase)

\* [ret, out]: out is the sequence of octets stored through b, in the order
\* of the stores; the caller's buffer has room for the first i of them
bm_get_b(h, a, i) ==
    IF i < 1 THEN [ret |-> -BM_ERROR_INTERNAL_ERROR, out |-> << >>]
    ELSE IF get_size_in_longs(i) < h[a].size
    THEN [ret |-> -BM_ERROR_NUMBER_TOO_BIG, out |-> << >>]
    ELSE LET m == h[a].size - 1
             l == Load(h, a, m)
             n == IF l > ByteBase ^ 3 - 1 THEN 4
                  ELSE IF l > ByteBase ^ 2 - 1 THEN 3
                  ELSE IF l > ByteBase - 1 THEN 2
                  ELSE IF l > 0 THEN 1
                  ELSE IF m > 0 THEN 0
                  ELSE 1
             out == get_b_loop(h, a, m, TopBytes(l, n))
         IN  [ret |-> Len(out),
              out |-> IF h[a].sign = BM_NEG THEN bm_neg_b(out, Len(out), 0) ELSE out]

(* ---------------------------- the state machine ----------------------- *)

VARIABLES
    mem,    \* the heap: the caller's bignums a, b, r, q and the scratch ones
    pc,     \* the call made last
    ret,    \* what it returned
    s,      \* the octet string given to bm_set_b
    blen,   \* the length of the buffer given to bm_get_b
    out,    \* the octets bm_get_b stored
    shift,  \* the count given to bm_asr or bm_asl
    div_i,  \* the local i of a bm_div that is in its loop
    div_c   \* the local c of a bm_div that is in its loop

vars == <<mem, pc, ret, s, blen, out, shift, div_i, div_c>>

\* the words and octets operands are made of
InWords == {0, 1, Base - 1}
InBytes == {0, 1, ByteBase - 1}
\* what memory that was never written, or written by an earlier use, holds
Junk == {0, Base - 1}

\* a bm_t after bm_init, its words never written
Fresh(j) == [sign |-> BM_NAN, size |-> 0, maxs |-> 0, b |-> [i \in Idx |-> j]]

\* a bm_t holding the words w (least significant first) under sign sg, as
\* bm_set_b and bm_neg leave it; the words above size hold j
Operand(sg, w, j) ==
    [sign |-> sg, size |-> Len(w), maxs |-> BM_MAX_SIZE,
     b |-> [i \in Idx |-> IF i < Len(w) THEN w[i + 1] ELSE j]]

\* canonical magnitudes of up to MaxLen words
Mags ==
    {w \in UNION {[1 .. n -> InWords] : n \in 1 .. MaxLen} :
        Len(w) = 1 \/ w[Len(w)] # 0}

IsZeroWords(w) == \A i \in 1 .. Len(w) : w[i] = 0

Heap(x, y, j) ==
    [a |-> x, b |-> y, r |-> Fresh(j), q |-> Fresh(j),
     rr |-> Fresh(j), nil |-> Fresh(j), exp |-> Fresh(j), bas |-> Fresh(j),
     tmp |-> Fresh(j), junk |-> j, oob |-> FALSE]

ByteStrings == UNION {[1 .. n -> InBytes] : n \in 1 .. MaxBytes}

InitArith ==
    /\ \E j \in Junk, wa \in Mags, wb \in Mags, sa \in {BM_POS, BM_NEG},
          sb \in {BM_POS, BM_NEG} :
          /\ IsZeroWords(wa) => sa = BM_POS
          /\ IsZeroWords(wb) => sb = BM_POS
          /\ mem = Heap(Operand(sa, wa, j), Operand(sb, wb, j), j)
    /\ pc = "init"
    /\ ret = BM_SUCCESS
    /\ s = << >>
    /\ blen = 0
    /\ out = << >>
    /\ shift = 0
    /\ div_i = 0
    /\ div_c = 0

InitBytes ==
    /\ \E j \in Junk : mem = Heap(Fresh(j), Fresh(j), j)
    /\ pc = "bytes"
    /\ ret = BM_SUCCESS
    /\ s \in ByteStrings
    /\ blen = 0
    /\ out = << >>
    /\ shift = 0
    /\ div_i = 0
    /\ div_c = 0

Init == InitArith \/ InitBytes

Call(g, name) ==
    /\ mem' = g.h
    /\ ret' = g.ret
    /\ pc' = name
    /\ UNCHANGED <<s, blen, out, shift, div_i, div_c>>

Add == pc = "init" /\ Call(bm_add(mem, "r", "a", "b"), "add")

\* bm_sub(r, r, b) on the result of bm_add(r, a, b)
AddSub ==
    pc = "add" /\ ret = BM_SUCCESS /\ Call(bm_sub(mem, "r", "r", "b"), "addsub")

Sub == pc = "init" /\ Call(bm_sub(mem, "r", "a", "b"), "sub")

Mul == pc = "init" /\ Call(bm_mul(mem, "r", "a", "b"), "mul")

Neg == pc = "init" /\ Call(bm_neg(mem, "a"), "neg")

\* bm_set_si(b, 0) on a bignum that held another value
SetZero == pc = "init" /\ Call(bm_set_si(mem, "b", 0), "zero")

AddZero == pc = "zero" /\ Call(bm_add(mem, "r", "a", "b"), "addzero")

Cmp ==
    /\ pc = "init"
    /\ ret' = bm_cmp(mem, "a", "b")
    /\ pc' = "cmp"
    /\ UNCHANGED <<mem, s, blen, out, shift, div_i, div_c>>

\* bm_div(q, r, a, b); pc is "running" when the call has not returned
Div ==
    /\ pc = "init"
    /\ LET g == bm_div(mem, "q", "r", "a", "b")
       IN  Call(g, IF g.run THEN "running" ELSE "div")

\* the exponent is put in q
SetExp ==
    /\ pc = "init"
    /\ mem.a.sign = BM_POS
    /\ mem.b.sign = BM_POS
    /\ ~bm_is_zero(mem, "b")
    /\ \E e \in 0 .. MaxExp : Call(bm_set_ui(mem, "q", e), "exp")

\* bm_powm(r, a, q, b)
Powm ==
    /\ pc = "exp"
    /\ LET g == bm_powm(mem, "r", "a", "q", "b")
       IN  Call(g, IF g.run THEN "running" ELSE "powm")

SetB ==
    /\ pc = "bytes"
    /\ LET g == bm_set_b(mem, "r", s, Len(s))
       IN  /\ mem' = g.h
           /\ ret' = g.ret
    /\ pc' = "set_b"
    /\ UNCHANGED <<s, blen, out, shift, div_i, div_c>>

\* bm_neg(r) on the bignum bm_set_b has set
NegR ==
    pc = "set_b" /\ ret = BM_SUCCESS /\ Call(bm_neg(mem, "r"), "neg_r")

\* bm_get_b(r, buf, n) on the bignum bm_set_b has set, negated or not
GetB ==
    /\ pc \in {"set_b", "neg_r"}
    /\ ret = BM_SUCCESS
    /\ \E n \in 1 .. MaxBytes :
          LET g == bm_get_b(mem, "r", n)
          IN  /\ blen' = n
              /\ ret' = g.ret
              /\ out' = g.out
    /\ pc' = (IF pc = "set_b" THEN "get_b" ELSE "get_b_neg")
    /\ UNCHANGED <<mem, s, shift, div_i, div_c>>

\* the shift counts, and those of them that index a word of b[] as every
\* count does in the source (32 bits, BM_MAX_SIZE = 32 words)
ShiftCounts == 0 .. (WordBits - 1)
AslCounts == ShiftCounts \cap Idx

\* bm_asr(r, a, n) with r freshly initialised
Asr ==
    /\ pc = "init"
    /\ \E n \in ShiftCounts, u \in BOOLEAN :
           LET g == bm_asr(mem, "r", "a", n, u)
           IN  mem' = g.h /\ ret' = g.ret /\ shift' = n
    /\ pc' = "asr"
    /\ UNCHANGED <<s, blen, out, div_i, div_c>>

\* bm_asr(q, q, n) on a copy q of a
AsrQQ ==
    /\ pc = "init"
    /\ \E n \in ShiftCounts, u \in BOOLEAN :
           LET g == bm_asr(bm_set(mem, "q", "a").h, "q", "q", n, u)
           IN  mem' = g.h /\ ret' = g.ret /\ shift' = n
    /\ pc' = "asr_qq"
    /\ UNCHANGED <<s, blen, out, div_i, div_c>>

\* bm_asl(r, a, n) with r freshly initialised
Asl ==
    /\ pc = "init"
    /\ \E n \in AslCounts, u \in BOOLEAN :
           LET g == bm_asl(mem, "r", "a", n, u)
           IN  mem' = g.h /\ ret' = g.ret /\ shift' = n
    /\ pc' = "asl"
    /\ UNCHANGED <<s, blen, out, div_i, div_c>>

\* bm_add(r, q, b) with q initialised by bm_init and never set
AddNan == pc = "init" /\ Call(bm_add(mem, "r", "q", "b"), "add_nan")

\* bm_add_ui(q, v) on a copy q of a that is not negative, v the word of b
AddUi ==
    /\ pc = "init"
    /\ mem.a.sign = BM_POS
    /\ mem.b.size = 1
    /\ Call(bm_add_ui(bm_set(mem, "q", "a").h, "q", Load(mem, "b", 0)), "add_ui")

Next ==
    \/ Add \/ AddSub \/ Sub \/ Mul \/ Neg \/ SetZero \/ AddZero \/ Cmp
    \/ SetB \/ NegR \/ GetB \/ Asr \/ AddNan \/ AsrQQ \/ Asl \/ AddUi

\* the calls of the arithmetic other than division, and the octet strings
Spec == Init /\ [][Next]_vars

\* bm_neg(b) before the division: the denominator may be a negative zero
NegDen == pc = "init" /\ mem.b.sign = BM_POS /\ Call(bm_neg(mem, "b"), "init")

NextDiv == Div \/ NegDen

\* the calls of bm_div
SpecDiv == InitArith /\ [][NextDiv]_vars

NextPowm == SetExp \/ Powm

\* the calls of bm_powm
SpecPowm == InitArith /\ [][NextPowm]_vars

\* bm_powm(a, a, q, b): the result is the base
PowmRB ==
    /\ pc = "exp"
    /\ LET g == bm_powm(mem, "a", "a", "q", "b")
       IN  Call(g, IF g.run THEN "running" ELSE "powm_rb")

\* bm_powm(q, a, q, b): the result is the exponent
PowmRE ==
    /\ pc = "exp"
    /\ LET g == bm_powm(mem, "q", "a", "q", "b")
       IN  Call(g, IF g.run THEN "running" ELSE "powm_re")

NextPowmAlias == SetExp \/ PowmRB \/ PowmRE

\* the calls of bm_powm whose result is one of its inputs
SpecPowmAlias == InitArith /\ [][NextPowmAlias]_vars

\* bm_set_ui(q, e) before a call of bm_powm whose modulus b is zero
SetExpZ ==
    /\ pc = "init"
    /\ mem.a.sign = BM_POS
    /\ bm_is_zero(mem, "b")
    /\ \E e \in 0 .. MaxExp : Call(bm_set_ui(mem, "q", e), "exp_z")

\* bm_powm(r, a, q, b) with b zero
PowmZ ==
    /\ pc = "exp_z"
    /\ LET g == bm_powm(mem, "r", "a", "q", "b")
       IN  Call(g, IF g.run THEN "running" ELSE "powm_z")

NextPowmZ == SetExpZ \/ PowmZ

\* the calls of bm_powm with a zero modulus
SpecPowmZ == InitArith /\ [][NextPowmZ]_vars

(* ------------- operands that fill the capacity, aliased results ------- *)

\* magnitudes of one word and magnitudes of BM_MAX_SIZE words
CapMags ==
    {<<w>> : w \in InWords}
    \cup {[i \in 1 .. BM_MAX_SIZE |-> w] : w \in {1, Base - 1}}
    \cup {[i \in 1 .. BM_MAX_SIZE |-> IF i = BM_MAX_SIZE THEN 1 ELSE 0]}

\* the result bignum: freshly initialised, or holding 1 or -1
CapResults(j) == {Fresh(j)} \cup {Operand(sg, <<1>>, j) : sg \in {BM_POS, BM_NEG}}

InitCap ==
    /\ \E j \in Junk, wa \in CapMags, wb \in CapMags, sa \in {BM_POS, BM_NEG},
          sb \in {BM_POS, BM_NEG} :
          /\ IsZeroWords(wa) => sa = BM_POS
          /\ IsZeroWords(wb) => sb = BM_POS
          /\ \E x \in CapResults(j) :
                 mem = [Heap(Operand(sa, wa, j), Operand(sb, wb, j), j)
                           EXCEPT !.r = x]
    /\ pc = "init"
    /\ ret = BM_SUCCESS
    /\ s = << >>
    /\ blen = 0
    /\ out = << >>
    /\ shift = 0
    /\ div_i = 0
    /\ div_c = 0

\* bm_add, bm_sub and bm_mul with the result one of the operands: XYZ names
\* the call with the arguments (x, y, z)
AddAAB == pc = "init" /\ Call(bm_add(mem, "a", "a", "b"), "add_aab")
AddBAB == pc = "init" /\ Call(bm_add(mem, "b", "a", "b"), "add_bab")
AddAAA == pc = "init" /\ Call(bm_add(mem, "a", "a", "a"), "add_aaa")
SubAAB == pc = "init" /\ Call(bm_sub(mem, "a", "a", "b"), "sub_aab")
SubBAB == pc = "init" /\ Call(bm_sub(mem, "b", "a", "b"), "sub_bab")
SubAAA == pc = "init" /\ Call(bm_sub(mem, "a", "a", "a"), "sub_aaa")
MulAAB == pc = "init" /\ Call(bm_mul(mem, "a", "a", "b"), "mul_aab")
MulBAB == pc = "init" /\ Call(bm_mul(mem, "b", "a", "b"), "mul_bab")
MulAAA == pc = "init" /\ Call(bm_mul(mem, "a", "a", "a"), "mul_aaa")

\* bm_sub_nosign(r, a, b) as bm_sub and bm_add call it, |a| >= |b|
SubNosign ==
    /\ pc = "init"
    /\ bm_cmp_nosign(mem, "a", "b") >= 0
    /\ Call(bm_sub_nosign(mem, "r", "a", "b"), "sub_nosign")

NextCap ==
    \/ Add \/ Sub \/ Mul \/ SubNosign
    \/ AddAAB \/ AddBAB \/ AddAAA
    \/ SubAAB \/ SubBAB \/ SubAAA
    \/ MulAAB \/ MulBAB \/ MulAAA

\* the calls of bm_add, bm_sub and bm_mul on operands of one word and of
\* BM_MAX_SIZE words, the result a bignum of its own or one of the operands
SpecCap == InitCap /\ [][NextCap]_vars

\* the octets the fixed-capacity b[] holds
MaxOctets == BM_MAX_SIZE * BytesPerWord

\* octet strings about as long as the capacity: a first octet and a fill
LongStrings ==
    {[i \in 1 .. n |-> IF i = 1 THEN x ELSE y] :
        n \in (MaxOctets - 1) .. (MaxOctets + 2), x \in InBytes, y \in InBytes}

InitLong ==
    /\ \E j \in Junk : \E x \in CapResults(j) :
           mem = [Heap(Fresh(j), Fresh(j), j) EXCEPT !.r = x]
    /\ pc = "bytes"
    /\ ret = BM_SUCCESS
    /\ s \in LongStrings
    /\ blen = 0
    /\ out = << >>
    /\ shift = 0
    /\ div_i = 0
    /\ div_c = 0

\* bm_set_b on strings about as long as the capacity, the destination
\* freshly initialised or holding a value
SpecLong == InitLong /\ [][SetB]_vars

(* --------------------- bm_div, one step of its loops ------------------ *)

\* bm_div(q, r, a, b) up to the head of its long division loop, or to its
\* return when it does not enter the loop
DivEnter ==
    /\ pc = "init"
    /\ LET enters == /\ ~bm_is_zero(mem, "b")
                     /\ bm_cmp_nosign(mem, "a", "b") > 0
                     /\ div_grow(mem, "q", "r", "a", "b").ret = BM_SUCCESS
       IN  IF enters
           THEN LET h4 == div_start(div_grow(mem, "q", "r", "a", "b").h, "q", "r")
                IN  /\ mem' = h4
                    /\ div_i' = h4.a.size
                    /\ pc' = "div_loop"
                    /\ UNCHANGED ret
           ELSE LET g == bm_div(mem, "q", "r", "a", "b")
                IN  /\ mem' = g.h
                    /\ ret' = g.ret
                    /\ pc' = "div_ret"
                    /\ UNCHANGED div_i
    /\ UNCHANGED <<s, blen, out, shift, div_c>>

\* while (i > 0) { c = 0; shift r up one word; r->b[0] = n->b[--i]; r->size++;
DivWord ==
    /\ pc = "div_loop"
    /\ div_i > 0
    /\ LET h1 == div_shift(mem, "r", mem.r.size)
           h2 == Store(h1, "r", 0, Load(h1, "a", div_i - 1))
       IN  mem' = [h2 EXCEPT !.r.size = h2.r.size + 1]
    /\ div_i' = div_i - 1
    /\ div_c' = 0
    /\ pc' = "div_sub"
    /\ UNCHANGED <<ret, s, blen, out, shift>>

\* while (bm_cmp_nosign(r,d) >= 0) { c++; bm_sub_nosign(r,r,d); }: one round
DivRound ==
    /\ pc = "div_sub"
    /\ bm_cmp_nosign(mem, "r", "b") >= 0
    /\ div_c' = (div_c + 1) % Base
    /\ mem' = bm_sub_nosign(mem, "r", "r", "b").h
    /\ UNCHANGED <<pc, ret, s, blen, out, shift, div_i>>

\* the end of the subtraction loop: if (c > 0) bm_add_ui(q,c), and its
\* error return
DivDigit ==
    /\ pc = "div_sub"
    /\ bm_cmp_nosign(mem, "r", "b") < 0
    /\ IF div_c > 0
       THEN LET g == bm_add_ui(mem, "q", div_c)
            IN  /\ mem' = g.h
                /\ IF g.ret # BM_SUCCESS
                   THEN ret' = g.ret /\ pc' = "div_ret"
                   ELSE UNCHANGED ret /\ pc' = "div_loop"
       ELSE UNCHANGED <<mem, ret>> /\ pc' = "div_loop"
    /\ UNCHANGED <<s, blen, out, shift, div_i, div_c>>

\* the signs and the return after the long division loop
DivSigns ==
    /\ pc = "div_loop"
    /\ div_i <= 0
    /\ LET h1 == [mem EXCEPT !.r.sign = mem.a.sign * mem.b.sign]
       IN  mem' = [h1 EXCEPT !.q.sign = h1.r.sign]
    /\ ret' = BM_SUCCESS
    /\ pc' = "div_ret"
    /\ UNCHANGED <<s, blen, out, shift, div_i, div_c>>

NextDivRun == DivEnter \/ DivWord \/ DivRound \/ DivDigit \/ DivSigns

\* a call of bm_div on operands of one word and of BM_MAX_SIZE words, step by
\* step; the call goes on to its next statement until it returns
SpecDivRun == InitCap /\ [][NextDivRun]_vars /\ WF_vars(NextDivRun)

(* ------------------------ reference arithmetic ------------------------ *)

\* word i of the magnitude of the bm_t x, the words at and above size being 0
Word(x, i) == IF i < x.size THEN x.b[i] ELSE 0

MagZero(x) == \A i \in Idx : Word(x, i) = 0

\* |x| < |y|: the most significant word in which they differ is smaller in x
MagLess(x, y) ==
    \E i \in Idx :
        /\ Word(x, i) < Word(y, i)
        /\ \A j \in Idx : j > i => Word(x, j) = Word(y, j)

\* a bm_t that holds a number
IsNumber(x) == x.sign \in {BM_POS, BM_NEG} /\ x.size \in 1 .. BM_MAX_SIZE

\* size is 1, or the most significant word is not 0
Trimmed(x) == x.size = 1 \/ Word(x, x.size - 1) # 0

\* the magnitude of x from word i up, and the number x holds
RECURSIVE Mag(_, _)
Mag(x, i) ==
    IF i \notin Idx \/ i >= x.size THEN 0 ELSE x.b[i] + Base * Mag(x, i + 1)

Val(x) == x.sign * Mag(x, 0)

\* b^e with 0^0 = 1
RECURSIVE Pow(_, _)
Pow(b, e) == IF e = 0 THEN 1 ELSE b * Pow(b, e - 1)

\* Pairwise coprime moduli whose product exceeds every number and every
\* product of two numbers the model holds: two such values are equal exactly
\* when their residues agree for each modulus.
Moduli == {46337, 46327, 46309, 46307}

RECURSIVE MagMod(_, _, _)
MagMod(x, i, p) ==
    IF i \notin Idx \/ i >= x.size THEN 0
    ELSE (x.b[i] + Base * MagMod(x, i + 1, p)) % p

ValMod(x, p) == (x.sign * MagMod(x, 0, p)) % p

(* ------------------------------- bm_div ------------------------------- *)

\* C1: a bm_div(q, rem, a, b) with b not zero that succeeds leaves
\* a = q*b + rem and |rem| < |b|
C1_DivIdentity ==
    (pc = "div" /\ ~MagZero(mem.b) /\ ret = BM_SUCCESS) =>
        /\ IsNumber(mem.q)
        /\ IsNumber(mem.r)
        /\ Val(mem.a) = Val(mem.q) * Val(mem.b) + Val(mem.r)
        /\ MagLess(mem.r, mem.b)

(* ------------------------------- bm_powm ------------------------------ *)

\* C2: bm_powm(r, base, exponent, modulus) with base >= 0, exponent >= 0 and
\* modulus >= 1 returns success and leaves r = base^exponent mod modulus, in
\* 0 .. modulus-1
C2_PowmValue ==
    pc = "powm" =>
        /\ ret = BM_SUCCESS
        /\ IsNumber(mem.r)
        /\ Val(mem.r) = Pow(Val(mem.a), Val(mem.q)) % Val(mem.b)

(* --------------------------- bm_add and bm_sub ------------------------ *)

\* C3: bm_add(r, a, b) leaves r = a + b for all signed a and b
C3_AddValue ==
    pc = "add" =>
        /\ ret = BM_SUCCESS
        /\ IsNumber(mem.r)
        /\ Val(mem.r) = Val(mem.a) + Val(mem.b)

\* C4: bm_add(r, a, b) followed by bm_sub(r, r, b) leaves r = a
C4_AddSubRoundTrip ==
    pc = "addsub" =>
        /\ ret = BM_SUCCESS
        /\ IsNumber(mem.r)
        /\ Val(mem.r) = Val(mem.a)

\* C5: bm_add(r, a, zero) leaves r = a for every bignum zero that holds 0,
\* also one that held a longer value before
C5_AddZero ==
    (pc = "addzero" /\ MagZero(mem.b)) =>
        /\ ret = BM_SUCCESS
        /\ IsNumber(mem.r)
        /\ Val(mem.r) = Val(mem.a)

\* C6: no bignum of magnitude zero has sign BM_NEG after an operation
C6_NoNegativeZero ==
    \A x \in {"a", "b", "r", "q"} : ~(mem[x].sign = BM_NEG /\ MagZero(mem[x]))

(* ------------------------------- bm_cmp ------------------------------- *)

\* the comparison of the magnitudes of x and y: -1, 0 or 1
MagCmp(x, y) == IF MagLess(x, y) THEN -1 ELSE IF MagLess(y, x) THEN 1 ELSE 0

\* C7: bm_cmp(a, b) = -bm_cmp(b, a) and bm_cmp(a, a) = 0; with different
\* signs the negative operand is the smaller, with equal signs the result is
\* the comparison of the magnitudes multiplied by the sign
C7_CmpLaw ==
    pc = "cmp" =>
        /\ ret = -bm_cmp(mem, "b", "a")
        /\ bm_cmp(mem, "a", "a") = 0
        /\ bm_cmp(mem, "b", "b") = 0
        /\ mem.a.sign # mem.b.sign =>
               ret = (IF mem.a.sign = BM_NEG THEN -1 ELSE 1)
        /\ mem.a.sign = mem.b.sign =>
               ret = mem.a.sign * MagCmp(mem.a, mem.b)

\* two negative operands, the first of the smaller magnitude
C7_Witness ==
    /\ pc = "cmp"
    /\ mem.a.sign = BM_NEG
    /\ mem.b.sign = BM_NEG
    /\ MagLess(mem.a, mem.b)
    /\ ret = 1

(* ------------------------------- bm_mul ------------------------------- *)

\* C8: with a.size + b.size within the capacity bm_mul(r, a, b) returns
\* success and leaves r = a*b trimmed: positive zero when an operand is zero,
\* else the sign is the product of the signs and the magnitude is |a|*|b|
C8_MulValue ==
    (pc = "mul" /\ mem.a.size + mem.b.size <= BM_MAX_SIZE) =>
        /\ ret = BM_SUCCESS
        /\ IsNumber(mem.r)
        /\ Trimmed(mem.r)
        /\ mem.r.sign = (IF MagZero(mem.a) \/ MagZero(mem.b) THEN BM_POS
                         ELSE mem.a.sign * mem.b.sign)
        /\ MagZero(mem.r) <=> (MagZero(mem.a) \/ MagZero(mem.b))
        /\ \A p \in Moduli :
               ValMod(mem.r, p) = (ValMod(mem.a, p) * ValMod(mem.b, p)) % p

\* a negative product of two operands of MaxLen words that fills all its words
C8_Witness ==
    /\ pc = "mul"
    /\ ret = BM_SUCCESS
    /\ mem.a.size = MaxLen
    /\ mem.b.size = MaxLen
    /\ mem.a.size + mem.b.size <= BM_MAX_SIZE
    /\ mem.r.size = mem.a.size + mem.b.size
    /\ mem.r.sign = BM_NEG

(* --------------------------- bm_div by zero --------------------------- *)

RECURSIVE Strip(_)
Strip(t) == IF Len(t) > 1 /\ t[1] = 0 THEN Strip(Tail(t)) ELSE t

NoLeadingZero(t) == Strip(t) = t

\* C10 as stated: for every non-empty octet string s, leading zero octets
\* included, bm_set_b(r, s, len) then bm_get_b(r, buf, n), n the minimal
\* length, returns the number of octets written and reproduces s
C10_RoundTripAnyString ==
    (pc = "get_b" /\ (blen = Len(s) \/ blen = Len(Strip(s)))) =>
        /\ ret = Len(out)
        /\ out = s

\* C10 for the strings without leading zero octets: bm_set_b(r, s, len) then
\* bm_get_b(r, buf, len) returns len and reproduces s
C10_RoundTrip ==
    (pc = "get_b" /\ blen = Len(s) /\ NoLeadingZero(s)) =>
        /\ ret = Len(s)
        /\ out = s

\* a string of MaxBytes octets, more than one word, has made the round trip
C10_Witness ==
    /\ pc = "get_b"
    /\ Len(s) = MaxBytes
    /\ s[1] # 0
    /\ blen = Len(s)
    /\ ret = MaxBytes
    /\ out = s

(* ------------------------- bm_get_b: the buffer ----------------------- *)

\* octet k of the magnitude of x, octet 0 the least significant
MagByte(x, k) ==
    (Word(x, k \div BytesPerWord) \div (ByteBase ^ (k % BytesPerWord))) % ByteBase

\* the length in octets of the minimal representation of the magnitude of x
MinBytes(x) ==
    LET nz == {k \in 0 .. (BM_MAX_SIZE * BytesPerWord - 1) : MagByte(x, k) # 0}
    IN  IF nz = {} THEN 1 ELSE 1 + CHOOSE k \in nz : \A j \in nz : j <= k

\* the number a sequence of octets holds, the first octet the most significant
RECURSIVE BytesVal(_)
BytesVal(t) ==
    IF t = << >> THEN 0
    ELSE BytesVal(SubSeq(t, 1, Len(t) - 1)) * ByteBase + t[Len(t)]

\* C11: bm_get_b(a, buf, len) stores at most len octets: it returns
\* NUMBER_TOO_BIG and stores nothing when the minimal representation of the
\* magnitude is longer than len, else it returns the number of octets stored,
\* at most len
C11_GetBWithinBuffer ==
    pc \in {"get_b", "get_b_neg"} =>
        IF MinBytes(mem.r) > blen
        THEN ret = -BM_ERROR_NUMBER_TOO_BIG /\ out = << >>
        ELSE ret = Len(out) /\ Len(out) <= blen

(* --------------------- bm_get_b: negative numbers --------------------- *)

\* C12: for a negative a whose magnitude M is stored in n octets bm_get_b
\* leaves the n octets of (2^(8n) - M) mod 2^(8n)
C12_TwosComplement ==
    (pc = "get_b_neg" /\ ret >= 0 /\ ret <= blen) =>
        /\ mem.r.sign = BM_NEG
        /\ ret = Len(out)
        /\ Mag(mem.r, 0) < ByteBase ^ Len(out)
        /\ BytesVal(out) =
               (ByteBase ^ Len(out) - Mag(mem.r, 0)) % (ByteBase ^ Len(out))

\* a magnitude of more than one word whose last octet is zero: the carry of
\* the negation runs into the octet before it
C12_Witness ==
    /\ pc = "get_b_neg"
    /\ mem.r.sign = BM_NEG
    /\ mem.r.size > 1
    /\ ret = Len(out)
    /\ ret <= blen
    /\ Len(s) > BytesPerWord
    /\ s[Len(s)] = 0
    /\ s[Len(s) - 1] # 0
    /\ out[Len(out)] = 0
    /\ out[Len(out) - 1] # 0

(* -------------------------- bm_powm: aliasing ------------------------ *)

\* x and y hold the same number: sign, size and the words below size
SameNum(x, y) ==
    /\ x.sign = y.sign
    /\ x.size = y.size
    /\ \A i \in Idx : i < x.size => x.b[i] = y.b[i]

\* C13: bm_powm with r the same bignum as the base, or as the exponent,
\* leaves in r the value the call with a distinct r leaves
C13_PowmAliasSameValue ==
    [][/\ (pc = "exp" /\ pc' = "powm_rb") =>
              LET g == bm_powm(mem, "r", "a", "q", "b")
              IN  ~g.run /\ ret' = g.ret /\ SameNum(mem'.a, g.h.r)
       /\ (pc = "exp" /\ pc' = "powm_re") =>
              LET g == bm_powm(mem, "r", "a", "q", "b")
              IN  ~g.run /\ ret' = g.ret /\ SameNum(mem'.q, g.h.r)]_vars

\* C14: bm_powm with r distinct from its inputs leaves the caller's base,
\* exponent and modulus (sign, size, capacity, words) as they were, on every
\* return
C14_PowmFrame ==
    [][(pc = "exp" /\ pc' = "powm") =>
           /\ mem'.a = mem.a
           /\ mem'.q = mem.q
           /\ mem'.b = mem.b]_vars

\* a call with an odd exponent above 1, a base and a modulus of MaxLen words
\* has returned
C14_Witness ==
    /\ pc = "powm"
    /\ mem.q.b[0] = MaxExp
    /\ mem.a.size = MaxLen
    /\ mem.b.size = MaxLen
    /\ mem.r.sign = BM_POS

(* ------------------- bm_add, bm_sub, bm_mul: aliasing ---------------- *)

\* the step to pc = name, a call F(t, x, y) with t one of x and y, returns
\* what F(r, x, y) returns and leaves in t the number F(r, x, y) leaves in r
AliasSame(F(_, _, _, _), t, x, y, name) ==
    (pc = "init" /\ pc' = name) =>
        LET g == F(mem, "r", x, y)
        IN  /\ ret' = g.ret
            /\ g.ret = BM_SUCCESS => SameNum(mem'[t], g.h.r)

\* C15: bm_add, bm_sub and bm_mul with r the same bignum as a, as b or as
\* both leave in r the sign, size and words the call with a distinct r leaves
C15_ArithAliasSame ==
    [][/\ AliasSame(bm_add, "a", "a", "b", "add_aab")
       /\ AliasSame(bm_add, "b", "a", "b", "add_bab")
       /\ AliasSame(bm_add, "a", "a", "a", "add_aaa")
       /\ AliasSame(bm_sub, "a", "a", "b", "sub_aab")
       /\ AliasSame(bm_sub, "b", "a", "b", "sub_bab")
       /\ AliasSame(bm_sub, "a", "a", "a", "sub_aaa")
       /\ AliasSame(bm_mul, "a", "a", "b", "mul_aab")
       /\ AliasSame(bm_mul, "b", "a", "b", "mul_bab")
       /\ AliasSame(bm_mul, "a", "a", "a", "mul_aaa")]_vars

(* ---------------------------- canonical form -------------------------- *)

\* the most significant word of x is not zero, unless x is the one word 0
Canonical(x) == x.size \in 1 .. BM_MAX_SIZE /\ Trimmed(x)

\* C16: after a successful operation every bignum that holds a number is in
\* canonical form, also one set by bm_set_b from a string with leading zero
\* octets
C16_CanonicalForm ==
    (/\ pc \in {"set_b", "neg_r", "add", "addsub", "sub", "mul", "neg", "zero",
               "addzero"}
     /\ ret = BM_SUCCESS) =>
        \A x \in {"a", "b", "r"} : mem[x].sign # BM_NAN => Canonical(mem[x])

\* C17: after a mutating call that returns success the target holds no more
\* words than its capacity, also a freshly initialised target of bm_asr,
\* bm_set_si or bm_set_b
C17_SizeWithinCapacity ==
    /\ (pc \in {"add", "sub", "mul", "addzero", "asr", "set_b"}
        /\ ret = BM_SUCCESS) => mem.r.size <= mem.r.maxs
    /\ (pc = "zero" /\ ret = BM_SUCCESS) => mem.b.size <= mem.b.maxs

\* C18: bm_set_b with a string that needs more than BM_MAX_SIZE words returns
\* NUMBER_TOO_BIG and stores no word outside b[], whether the destination is
\* freshly initialised or holds a value
C18_SetBTooBig ==
    (pc = "set_b" /\ get_size_in_longs(Len(s)) > BM_MAX_SIZE) =>
        ret = -BM_ERROR_NUMBER_TOO_BIG /\ ~mem.oob

\* C19: when bm_add or bm_sub returns NUMBER_TOO_BIG because the result
\* cannot grow, the result bignum has the sign, the size and the words it had
\* before the call
C19_ErrorLeavesResult ==
    [][(/\ pc = "init"
        /\ pc' \in {"add", "sub"}
        /\ ret' = -BM_ERROR_NUMBER_TOO_BIG) => SameNum(mem'.r, mem.r)]_vars

\* C20: bm_add with an operand that was initialised and never set (sign
\* BM_NAN, size 0) fails with NOT_A_NUMBER and produces no result
C20_NanOperandFails ==
    pc = "add_nan" =>
        ret = -BM_ERROR_NOT_A_NUMBER /\ mem.r.sign = BM_NAN /\ mem.r.size = 0

\* C21: when a step inside the loop of bm_powm fails, here the division by a
\* zero modulus that every pass of the loop makes, bm_powm does not return
\* BM_SUCCESS
C21_PowmReturnsInnerError ==
    (pc = "powm_z" /\ ~bm_is_zero(mem, "q")) => ret # BM_SUCCESS

\* C22: when bm_mul returns, on its error returns too, bm_done has been
\* called on its scratch bignum rr: rr holds no words and has no capacity
C22_MulScratchReleased ==
    pc \in {"mul", "mul_aab", "mul_bab", "mul_aaa"} =>
        mem.rr.maxs = 0 /\ mem.rr.size = 0

\* C23: a failure of bm_div, the division by zero included, is returned as a
\* value below zero, the negative of its BM_ERROR_* code
C23_DivErrorNegative ==
    (pc = "div" /\ ret # BM_SUCCESS) => ret < 0

\* C24: for |a| >= |b| bm_sub_nosign(r, a, b) leaves r with the magnitude
\* |a| - |b|, trimmed to one word at least
C24_SubMagnitude ==
    (pc = "sub_nosign" /\ ret = BM_SUCCESS) =>
        /\ mem.r.size >= 1
        /\ Trimmed(mem.r)
        /\ Mag(mem.r, 0) = Mag(mem.a, 0) - Mag(mem.b, 0)

(* ------------------------------- shifts ------------------------------- *)

\* C25: bm_asl(r, a, n) with 0 <= n < 32 leaves r with the sign of a and the
\* magnitude |a| * 2^n
C25_AslValue ==
    (pc = "asl" /\ ret = BM_SUCCESS) =>
        /\ mem.r.sign = mem.a.sign
        /\ Mag(mem.r, 0) = Mag(mem.a, 0) * 2 ^ shift

\* C26: bm_asr(r, a, n) with 0 <= n < 32, n = 0 included, leaves r with the
\* sign of a and the magnitude floor(|a| / 2^n), also when r is the bignum
\* shifted
C26_AsrValue ==
    /\ (pc = "asr" /\ ret = BM_SUCCESS) =>
           /\ mem.r.sign = mem.a.sign
           /\ Mag(mem.r, 0) = Mag(mem.a, 0) \div (2 ^ shift)
    /\ (pc = "asr_qq" /\ ret = BM_SUCCESS) =>
           /\ mem.q.sign = mem.a.sign
           /\ Mag(mem.q, 0) = Mag(mem.a, 0) \div (2 ^ shift)

\* C27: bm_trim reads no word below b[0] and leaves a size of 1 at least:
\* a bm_asr whose result is zero leaves size 1 and b[0] = 0
C27_TrimKeepsOneWord ==
    /\ (pc = "asr" /\ MagZero(mem.r)) =>
           mem.r.size = 1 /\ mem.r.b[0] = 0 /\ ~mem.oob
    /\ (pc = "asr_qq" /\ MagZero(mem.q)) =>
           mem.q.size = 1 /\ mem.q.b[0] = 0 /\ ~mem.oob

(* ----------------------------- termination ---------------------------- *)

\* C28: bm_div returns for every numerator and every denominator that is not
\* zero, of sizes up to BM_MAX_SIZE words
C28_DivTerminates ==
    (pc = "init" /\ ~MagZero(mem.b)) ~> (pc = "div_ret")

(* ------------------------------ bm_add_ui ----------------------------- *)

\* C29: for a that is not negative and any word v, bm_add_ui(a, v) leaves a
\* equal to a + v
C29_AddUiValue ==
    (pc = "add_ui" /\ ret = BM_SUCCESS) =>
        /\ mem.q.sign = BM_POS
        /\ Mag(mem.q, 0) = Mag(mem.a, 0) + mem.b.b[0]

(* ------------------------ words above the size ------------------------ *)

\* x with the words at the indexes from its size up set to zero
Cleared(x) == [x EXCEPT !.b = [i \in Idx |-> IF i < x.size THEN x.b[i] ELSE 0]]

\* the heap with the words above the size of the operands a and b cleared
ClearedOperands(h) == [h EXCEPT !.a = Cleared(h.a), !.b = Cleared(h.b)]

\* C30: bm_add and bm_sub give the same result sign, size and words, and
\* return the same, on operands that differ only in the words at indexes
\* from their size up
C30_WordsAboveSizeIgnored ==
    [][/\ (pc = "init" /\ pc' = "add") =>
              LET g == bm_add(ClearedOperands(mem), "r", "a", "b")
              IN  ret' = g.ret /\ SameNum(mem'.r, g.h.r)
       /\ (pc = "init" /\ pc' = "sub") =>
              LET g == bm_sub(ClearedOperands(mem), "r", "a", "b")
              IN  ret' = g.ret /\ SameNum(mem'.r, g.h.r)]_vars

====
